---- MODULE Spec2Model ----
(***************************************************************************)
(* Model of HashTables/hashtable.py: a bucketed (separate chaining) hash   *)
(* table with a load-factor growth policy and an insertion-order stack of  *)
(* keys that backs popitem.                                                *)
(*                                                                         *)
(* The object's fields are the variables array, size, internal_array_size, *)
(* load_factor, hash_function and stack.  History variables are added:     *)
(* `latest` is the abstract map the table is meant to implement (the       *)
(* (key, value) pairs in order of their latest put), `op` records the      *)
(* last call with its arguments and its result, and `initial_capacity`     *)
(* keeps the capacity the table was constructed with.                      *)
(*                                                                         *)
(* Keys are small non-negative integers, for which Python's built-in hash  *)
(* is the identity.  Values are None or a small positive integer; None is  *)
(* encoded as 0.                                                           *)
(***************************************************************************)
EXTENDS Integers, Sequences, FiniteSets, TLC

VARIABLES array, size, internal_array_size, load_factor, hash_function,
          stack, latest, op, initial_capacity

vars == <<array, size, internal_array_size, load_factor, hash_function,
          stack, latest, op, initial_capacity>>

(* ------------------------------ bounds --------------------------------- *)

MaxKey == 2
MaxVal == 2
MaxStack == 3
MaxCapacity == 8
MaxInitialCapacity == 2
\* the size counter is not bounded below: once it has come down to
\* -MaxDeficit, the calls that would lower it further are left out
MaxDeficit == 1

None == 0

Keys == 1..MaxKey
Values == {None} \cup (1..MaxVal)
InitialCapacities == 1..MaxInitialCapacity

\* load factors as <<numerator, denominator>>: 3/4 is the default, 1 the
\* largest ratio the documentation allows, 0 a value the constructor
\* accepts (it validates nothing) and under which the table grows.
LoadFactors == {<<0, 1>>, <<3, 4>>, <<1, 1>>}

\* "hash" is the built-in, "zero" a caller-supplied function sending every
\* key to 0.
HashFunctions == {"hash", "zero"}

ApplyHash(f, key) == IF f = "hash" THEN key ELSE 0

(* --------------------------- the table object -------------------------- *)

Self == [array |-> array, size |-> size,
         internal_array_size |-> internal_array_size,
         load_factor |-> load_factor, hash_function |-> hash_function,
         stack |-> stack]

EmptyBuckets(n) == [i \in 1..n |-> <<>>]

\* __init__: the hash_function argument is ignored, the built-in is stored.
__init__(capacity, lf, hf) ==
    [array |-> EmptyBuckets(capacity),
     hash_function |-> "hash",
     size |-> 0,
     internal_array_size |-> capacity,
     load_factor |-> lf,
     stack |-> <<>>]

__key_to_index(t, key) == ApplyHash(t.hash_function, key) % t.internal_array_size

\* bucket i of the Python list (0-based) is array[i + 1]
BucketAt(t, i) == t.array[i + 1]

RECURSIVE Find(_, _, _)
\* first position b >= from of bucket whose key equals key, 0 if none
Find(bucket, key, from) ==
    IF from > Len(bucket) THEN 0
    ELSE IF bucket[from][1] = key THEN from
    ELSE Find(bucket, key, from + 1)

RemoveAt(s, b) == SubSeq(s, 1, b - 1) \o SubSeq(s, b + 1, Len(s))

\* pop as it would be without the size bookkeeping
pop_keeps_size(t, key) ==
    LET a == __key_to_index(t, key)
        b == Find(BucketAt(t, a), key, 1)
    IN  IF b = 0
        THEN [t |-> t, ret |-> None]
        ELSE [t |-> [t EXCEPT !.array[a + 1] = RemoveAt(@, b)],
              ret |-> BucketAt(t, a)[b][2]]

\* pop as it would be looking at the head of the bucket only
pop_head_only(t, key) ==
    LET a == __key_to_index(t, key)
        bucket == BucketAt(t, a)
    IN  IF bucket # <<>> /\ bucket[1][1] = key
        THEN [t |-> [t EXCEPT !.array[a + 1] = Tail(@), !.size = @ - 1],
              ret |-> bucket[1][2]]
        ELSE [t |-> t, ret |-> None]

get(t, key) ==
    LET i == __key_to_index(t, key)
        bucket == BucketAt(t, i)
        b == Find(bucket, key, 1)
    IN  IF b = 0 THEN None ELSE bucket[b][2]

pop(t, key) ==
    LET a == __key_to_index(t, key)
        b == Find(BucketAt(t, a), key, 1)
    IN  IF b = 0
        THEN [t |-> t, ret |-> None]
        ELSE [t |-> [t EXCEPT !.array[a + 1] = RemoveAt(@, b),
                              !.size = @ - 1],
              ret |-> BucketAt(t, a)[b][2]]

RECURSIVE Flatten(_, _)
Flatten(arr, i) ==
    IF i > Len(arr) THEN <<>> ELSE arr[i] \o Flatten(arr, i + 1)

items(t) == Flatten(t.array, 1)

keys(t) == [i \in 1..Len(items(t)) |-> items(t)[i][1]]

contains_key(t, key) ==
    LET i == __key_to_index(t, key)
        bucket == BucketAt(t, i)
    IN  Len(bucket) >= 1

__contains__(t, key) == contains_key(t, key)

RECURSIVE Redistribute(_, _, _, _)
\* the loop of __rehash: append every pair to its bucket of the new array
Redistribute(new_array, pairs, hf, new_size) ==
    IF pairs = <<>> THEN new_array
    ELSE LET k == Head(pairs)[1]
             i == ApplyHash(hf, k) % new_size
         IN  Redistribute([new_array EXCEPT ![i + 1] = Append(@, Head(pairs))],
                          Tail(pairs), hf, new_size)

\* __rehash as it would be indexing the new array by the old capacity
__rehash_old_index(t) ==
    IF t.size * t.load_factor[2] < Len(t.array) * t.load_factor[1]
    THEN t
    ELSE [t EXCEPT
            !.array = Redistribute(EmptyBuckets(t.internal_array_size * 2),
                                   items(t), t.hash_function,
                                   t.internal_array_size),
            !.internal_array_size = @ * 2]

\* __rehash as it would be without the load factor test
__rehash_always(t) ==
    [t EXCEPT
        !.array = Redistribute(EmptyBuckets(t.internal_array_size * 2),
                               items(t), t.hash_function,
                               2 * t.internal_array_size),
        !.internal_array_size = @ * 2]

__rehash(t) ==
    IF t.size * t.load_factor[2] < Len(t.array) * t.load_factor[1]
    THEN t
    ELSE [t EXCEPT
            !.array = Redistribute(EmptyBuckets(t.internal_array_size * 2),
                                   items(t), t.hash_function,
                                   2 * t.internal_array_size),
            !.internal_array_size = @ * 2]

\* put as it would be without removing the key's previous entry first
put_keeps_old(t, key, value) ==
    LET old_value == get(t, key)
        r == __rehash(t)
        i == __key_to_index(r, key)
    IN  [t |-> [r EXCEPT !.array[i + 1] = Append(@, <<key, value>>),
                         !.stack = Append(@, key)],
         ret |-> old_value]

\* put as it would be without recording the key on the insertion stack
put_no_push(t, key, value) ==
    LET p == pop(t, key)
        old_value == p.ret
        r == __rehash(p.t)
        i == __key_to_index(r, key)
    IN  [t |-> [r EXCEPT !.array[i + 1] = Append(@, <<key, value>>),
                         !.size = IF old_value # None THEN @ + 1 ELSE @],
         ret |-> old_value]

put(t, key, value) ==
    LET p == pop(t, key)
        old_value == p.ret
        r == __rehash(p.t)
        i == __key_to_index(r, key)
    IN  [t |-> [r EXCEPT !.array[i + 1] = Append(@, <<key, value>>),
                         !.size = IF old_value # None THEN @ + 1 ELSE @,
                         !.stack = Append(@, key)],
         ret |-> old_value]

RECURSIVE popitem_oldest(_)
\* popitem as it would be taking keys from the head of the stack (popleft)
popitem_oldest(t) ==
    IF Len(t.stack) = 0
    THEN [t |-> t, ret |-> None, raised |-> TRUE, iters |-> 1, popped |-> {}]
    ELSE LET k == t.stack[1]
             p == pop([t EXCEPT !.stack = Tail(@)], k)
         IN  IF p.ret # None
             THEN [t |-> p.t, ret |-> p.ret, raised |-> FALSE,
                   iters |-> 1, popped |-> {k}]
             ELSE LET n == popitem_oldest(p.t)
                  IN  [n EXCEPT !.iters = @ + 1, !.popped = @ \cup {k}]

RECURSIVE popitem_peek(_)
\* popitem as it would be reading the tail of the stack and taking it off
\* only when the key turns out stale
popitem_peek(t) ==
    IF Len(t.stack) = 0
    THEN [t |-> t, ret |-> None, raised |-> TRUE, iters |-> 1, popped |-> {}]
    ELSE LET k == t.stack[Len(t.stack)]
             p == pop(t, k)
         IN  IF p.ret # None
             THEN [t |-> p.t, ret |-> p.ret, raised |-> FALSE,
                   iters |-> 1, popped |-> {k}]
             ELSE LET n == popitem_peek([p.t EXCEPT
                                           !.stack = SubSeq(@, 1, Len(@) - 1)])
                  IN  [n EXCEPT !.iters = @ + 1, !.popped = @ \cup {k}]

RECURSIVE popitem(_)
\* iters counts the passes through the while loop, popped the keys taken
\* off the stack
popitem(t) ==
    IF Len(t.stack) = 0
    THEN [t |-> t, ret |-> None, raised |-> TRUE, iters |-> 1, popped |-> {}]
    ELSE LET k == t.stack[Len(t.stack)]
             p == pop([t EXCEPT !.stack = SubSeq(@, 1, Len(@) - 1)], k)
         IN  IF p.ret # None
             THEN [t |-> p.t, ret |-> p.ret, raised |-> FALSE,
                   iters |-> 1, popped |-> {k}]
             ELSE LET n == popitem(p.t)
                  IN  [n EXCEPT !.iters = @ + 1, !.popped = @ \cup {k}]

\* clear as it would be starting again from a single bucket
clear_one_bucket(t) ==
    [t EXCEPT !.array = EmptyBuckets(1),
              !.stack = <<>>,
              !.size = 0]

\* clear as it would be leaving the insertion stack alone
clear_keeps_stack(t) ==
    [t EXCEPT !.array = EmptyBuckets(t.internal_array_size),
              !.size = 0]

clear(t) ==
    [t EXCEPT !.array = EmptyBuckets(t.internal_array_size),
              !.stack = <<>>,
              !.size = 0]

RECURSIVE PutAll(_, _, _)
PutAll(t, keyseq, val) ==
    IF keyseq = <<>> THEN t
    ELSE PutAll(put(t, Head(keyseq), val).t, Tail(keyseq), val)

fromkeys(keyseq, val, capacity, lf, hf) ==
    PutAll(__init__(capacity, lf, hf), keyseq, val)

\* setdefault as it would be putting the value whatever the key holds
setdefault_always(t, key, value) ==
    LET s == put(t, key, value).t
    IN  [t |-> s, ret |-> get(s, key)]

\* the result of setdefault with the table it leaves
setdefault(t, key, value) ==
    LET s == IF get(t, key) = None THEN put(t, key, value).t ELSE t
    IN  [t |-> s, ret |-> get(s, key)]

(* --------------------------- history variables ------------------------- *)

\* the abstract map: drop the pairs of the keys in K
Without(l, K) == SelectSeq(l, LAMBDA e : e[1] \notin K)

RECURSIVE RecordAll(_, _, _)
RecordAll(l, keyseq, val) ==
    IF keyseq = <<>> THEN l
    ELSE RecordAll(Append(Without(l, {Head(keyseq)}), <<Head(keyseq), val>>),
                   Tail(keyseq), val)

\* hash_function is the function handed to a constructing call, "-" for
\* the calls that take none
Call(name, key, keyseq, value, ret, raised) ==
    [name |-> name, key |-> key, keys |-> keyseq, value |-> value,
     ret |-> ret, raised |-> raised, hash_function |-> "-"]

Construction(name, keyseq, value, hf) ==
    [Call(name, 0, keyseq, value, None, FALSE) EXCEPT !.hash_function = hf]

Becomes(t) ==
    /\ array' = t.array
    /\ size' = t.size
    /\ internal_array_size' = t.internal_array_size
    /\ load_factor' = t.load_factor
    /\ hash_function' = t.hash_function
    /\ stack' = t.stack

\* sequences of distinct keys
RECURSIVE SeqsUpTo(_)
SeqsUpTo(n) ==
    IF n = 0 THEN {<<>>}
    ELSE LET S == SeqsUpTo(n - 1)
         IN  S \cup {Append(s, k) : s \in {x \in S : Len(x) = n - 1}, k \in Keys}

Distinct(s) == \A i, j \in 1..Len(s) : i # j => s[i] # s[j]

KeySeqs == {s \in SeqsUpTo(MaxKey) : Distinct(s)}

(* ------------------------------- actions ------------------------------- *)

Init ==
    \E c \in InitialCapacities, lf \in LoadFactors, hf \in HashFunctions :
        LET t == __init__(c, lf, hf)
        IN  /\ array = t.array
            /\ size = t.size
            /\ internal_array_size = t.internal_array_size
            /\ load_factor = t.load_factor
            /\ hash_function = t.hash_function
            /\ stack = t.stack
            /\ latest = <<>>
            /\ op = Construction("init", <<>>, None, hf)
            /\ initial_capacity = c

Put(key, value) ==
    LET r == put(Self, key, value)
    IN  /\ Len(stack) < MaxStack
        /\ r.t.internal_array_size <= MaxCapacity
        /\ (r.t.size < size => size > -MaxDeficit)
        /\ Becomes(r.t)
        /\ latest' = Append(Without(latest, {key}), <<key, value>>)
        /\ op' = Call("put", key, <<>>, value, r.ret, FALSE)
        /\ UNCHANGED initial_capacity

Pop(key) ==
    LET r == pop(Self, key)
    IN  /\ (r.t.size < size => size > -MaxDeficit)
        /\ Becomes(r.t)
        /\ latest' = Without(latest, {key})
        /\ op' = Call("pop", key, <<>>, None, r.ret, FALSE)
        /\ UNCHANGED initial_capacity

PopItem ==
    LET r == popitem(Self)
    IN  /\ (r.t.size < size => size > -MaxDeficit)
        /\ Becomes(r.t)
        /\ latest' = Without(latest, r.popped)
        /\ op' = Call("popitem", 0, <<>>, None, r.ret, r.raised)
        /\ UNCHANGED initial_capacity

\* op.keys keeps the keys the table held when clear was called
Clear ==
    /\ Becomes(clear(Self))
    /\ latest' = <<>>
    /\ op' = Call("clear", 0, keys(Self), None, None, FALSE)
    /\ UNCHANGED initial_capacity

SetDefault(key, value) ==
    LET r == setdefault(Self, key, value)
    IN  /\ Len(r.t.stack) <= MaxStack
        /\ r.t.internal_array_size <= MaxCapacity
        /\ (r.t.size < size => size > -MaxDeficit)
        /\ Becomes(r.t)
        /\ latest' = IF get(Self, key) = None
                     THEN Append(Without(latest, {key}), <<key, value>>)
                     ELSE latest
        /\ op' = Call("setdefault", key, <<>>, value, r.ret, FALSE)
        /\ UNCHANGED initial_capacity

\* fromkeys is a class method: it builds the table in place of a plain
\* construction, so it acts on a table nothing has been done to yet.
FromKeys(keyseq, val, c, lf, hf) ==
    LET t == fromkeys(keyseq, val, c, lf, hf)
    IN  /\ op.name = "init"
        /\ t.internal_array_size <= MaxCapacity
        /\ t.size >= -MaxDeficit
        /\ Becomes(t)
        /\ latest' = RecordAll(<<>>, keyseq, val)
        /\ op' = Construction("fromkeys", keyseq, val, hf)
        /\ initial_capacity' = c

Next ==
    \/ \E key \in Keys, value \in Values : Put(key, value)
    \/ \E key \in Keys : Pop(key)
    \/ PopItem
    \/ Clear
    \/ \E keyseq \in KeySeqs, val \in Values, c \in InitialCapacities,
          lf \in LoadFactors, hf \in HashFunctions :
            FromKeys(keyseq, val, c, lf, hf)

Spec == Init /\ [][Next]_vars

\* setdefault on its own: it reads through get and fills the table through
\* put, pop and clear empty it again
NextSetDefault ==
    \/ \E key \in Keys : Pop(key)
    \/ Clear
    \/ \E key \in Keys, value \in Values : SetDefault(key, value)

SpecSetDefault == Init /\ [][NextSetDefault]_vars

(* ------------------------------ vocabulary ----------------------------- *)

TotalEntries == Len(items(Self))

Present(key) == \E i \in 1..Len(array) : Find(array[i], key, 1) # 0

LiveKeys == {k \in Keys : Present(k)}

ValidLoadFactor == load_factor[1] > 0 /\ load_factor[1] <= load_factor[2]

TypeOK ==
    /\ size \in Int
    /\ internal_array_size \in 1..MaxCapacity
    /\ Len(stack) <= MaxStack

EntrySet == {items(Self)[i] : i \in 1..Len(items(Self))}

\* the value held by the entry of a present key, read off the buckets
StoredValue(key) == (CHOOSE e \in EntrySet : e[1] = key)[2]

AllNonNone == \A e \in EntrySet : e[2] # None

\* what the abstract map gives for a key: the value of its latest put that
\* no pop or clear has followed, None without one
AbstractGet(key) ==
    LET hits == SelectSeq(latest, LAMBDA e : e[1] = key)
    IN  IF hits = <<>> THEN None ELSE hits[1][2]

Count(s, v) == Cardinality({i \in 1..Len(s) : s[i] = v})

RECURSIVE Drain(_)
\* the values returned by calling popitem until it raises
Drain(t) ==
    LET r == popitem(t)
    IN  IF r.raised THEN <<>> ELSE <<r.ret>> \o Drain(r.t)

StoredValues == [i \in 1..Len(items(Self)) |-> items(Self)[i][2]]

(* ------------------------------- claims -------------------------------- *)

\* C1: in every reachable state of a table built with a load factor in
\* (0, 1], the size counter equals the number of entries held in the
\* buckets, and is never negative.
C1_SizeCountsEntries ==
    ValidLoadFactor => (size = TotalEntries /\ size >= 0)

\* C2: for every key, get returns the value of the most recent put of that
\* key not followed by a pop of it or a clear, and None if there is none.
C2_GetIsAbstractMap ==
    \A k \in Keys : get(Self, k) = AbstractGet(k)

\* an overwrite with a different value has just happened while another key,
\* put earlier, has been removed and is still on the stack
C2_Witness ==
    /\ op.name = "put"
    /\ op.ret \notin {None, op.value}
    /\ get(Self, op.key) = op.value
    /\ \E i \in 1..Len(stack) : stack[i] # op.key /\ ~Present(stack[i])

\* C3: a put on a present key, whatever value it holds, leaves size
\* unchanged and makes get return the new value.
C3_OverwriteKeepsSize ==
    [][(ValidLoadFactor /\ op'.name = "put" /\ Present(op'.key))
         => (size' = size /\ get(Self', op'.key) = op'.value)]_vars

\* C4: with a load factor in (0, 1], once the stored entries have reached
\* capacity * load_factor, the put of a new key doubles the number of
\* buckets and every key present before is still returned with its value.
C4_GrowsAtLoadFactor ==
    [][(/\ ValidLoadFactor
        /\ op'.name = "put"
        /\ ~Present(op'.key)
        /\ TotalEntries * load_factor[2] >= Len(array) * load_factor[1])
         => (/\ Len(array') = 2 * Len(array)
             /\ \A k \in LiveKeys : get(Self', k) = get(Self, k))]_vars

\* C5: pop on a present key returns the stored value, removes exactly that
\* entry and takes 1 off size; pop on an absent key returns None and leaves
\* buckets and size as they were.
C5_Pop ==
    [][op'.name = "pop"
         => IF Present(op'.key)
            THEN /\ op'.ret = StoredValue(op'.key)
                 /\ EntrySet' = EntrySet \ {<<op'.key, StoredValue(op'.key)>>}
                 /\ TotalEntries' = TotalEntries - 1
                 /\ size' = size - 1
            ELSE /\ op'.ret = None
                 /\ array' = array
                 /\ size' = size]_vars

\* a present key with a real value has been popped from a table that still
\* holds another entry
C5_Witness ==
    /\ op.name = "pop"
    /\ op.ret # None
    /\ ~Present(op.key)
    /\ TotalEntries >= 1

\* C6: when every stored value is non-None and an entry is live, popitem
\* returns the value stored under the key whose latest put is the most
\* recent among the present keys, and removes that key and no other.
C6_PopItemTakesLatest ==
    [][(op'.name = "popitem" /\ TotalEntries > 0 /\ AllNonNone)
         => /\ Len(latest) > 0
            /\ LET k == latest[Len(latest)][1]
               IN  /\ ~op'.raised
                   /\ op'.ret = StoredValue(k)
                   /\ EntrySet' = EntrySet \ {<<k, StoredValue(k)>>}]_vars

\* popitem has returned a value and left a live entry behind, under a stack
\* that still carries a stale key below it
C6_Witness ==
    /\ op.name = "popitem"
    /\ ~op.raised
    /\ AllNonNone
    /\ TotalEntries = 1
    /\ Len(stack) = 2

\* C7: calling popitem until it raises returns exactly size values, one for
\* each live entry.
C7_DrainReturnsSize ==
    ValidLoadFactor =>
        /\ Len(Drain(Self)) = size
        /\ \A v \in Values : Count(Drain(Self), v) = Count(StoredValues, v)

\* C8: popitem raises exactly when no entry is stored at the time of the
\* call; with an entry stored, whatever its value, it returns.
C8_PopItemRaisesIffEmpty ==
    [][(ValidLoadFactor /\ op'.name = "popitem")
         => (op'.raised <=> TotalEntries = 0)]_vars

\* C9: after clear, size is 0, every bucket and the stack are empty, and get
\* returns None for every key present before the call.
C9_Clear ==
    [][op'.name = "clear"
         => /\ size' = 0
            /\ \A i \in 1..Len(array') : array'[i] = <<>>
            /\ stack' = <<>>
            /\ \A k \in LiveKeys : get(Self', k) = None]_vars

\* a table that held two keys has been cleared
C9_Witness ==
    /\ op.name = "clear"
    /\ Len(op.keys) >= 2
    /\ TotalEntries = 0
    /\ \A i \in 1..Len(op.keys) : get(Self, op.keys[i]) = None

\* C10: fromkeys over distinct keys gives a table where get returns the
\* value for each of the keys and size is the number of keys.
C10_FromKeys ==
    (ValidLoadFactor /\ op.name = "fromkeys")
        => /\ size = Len(op.keys)
           /\ \A i \in 1..Len(op.keys) : get(Self, op.keys[i]) = op.value

\* every entry sits in the bucket that hash function f gives its key at the
\* current capacity
EntriesIndexedBy(f) ==
    \A i \in 1..Len(array) : \A j \in 1..Len(array[i]) :
        ApplyHash(f, array[i][j][1]) % internal_array_size = i - 1

\* C11: contains_key, and the `in` test that delegates to it, is true exactly
\* when the table holds an entry with that key; it is false for an absent
\* key also when another key occupies the same bucket.
C11_ContainsKeyIsMembership ==
    ValidLoadFactor =>
        \A k \in Keys : /\ contains_key(Self, k) <=> Present(k)
                        /\ __contains__(Self, k) <=> Present(k)

\* C12: the hash function handed to fromkeys, and by it to the constructor,
\* is the one the table uses: every key's bucket index is that function of
\* the key mod capacity, and the entries put sit in those buckets.
C12_SuppliedHashIsUsed ==
    (ValidLoadFactor /\ op.name = "fromkeys")
        => /\ \A k \in Keys :
                __key_to_index(Self, k)
                    = ApplyHash(op.hash_function, k) % internal_array_size
           /\ EntriesIndexedBy(op.hash_function)

\* C13: setdefault inserts (key, value) and returns value when get(key) is
\* None before the call; otherwise it leaves buckets, size and stack as they
\* were and returns the value the key already has.
C13_SetDefault ==
    [][op'.name = "setdefault"
         => IF get(Self, op'.key) = None
            THEN /\ <<op'.key, op'.value>> \in EntrySet'
                 /\ get(Self', op'.key) = op'.value
                 /\ op'.ret = op'.value
            ELSE /\ array' = array
                 /\ size' = size
                 /\ stack' = stack
                 /\ op'.ret = get(Self, op'.key)]_vars

\* setdefault has been called with another value on a key that holds one
\* and has returned the value held, next to a second key it inserted
C13_Witness ==
    /\ op.name = "setdefault"
    /\ op.ret # None
    /\ op.ret # op.value
    /\ get(Self, op.key) = op.ret
    /\ TotalEntries >= 2

\* the size counter at the growth check of put(key, ...): the key's entry,
\* if there is one, has been removed
SizeAtGrowthCheck(key) == IF Present(key) THEN size - 1 ELSE size

\* C14: on every call on a table the number of buckets never decreases; it
\* changes only in put, where it exactly doubles, and only when
\* size >= capacity * load_factor holds at the growth check made after the
\* key's existing entry is removed; pop, popitem and clear leave it alone.
C14_CapacityOnlyDoublesInPut ==
    [][op'.name # "fromkeys"
         => /\ Len(array') >= Len(array)
            /\ internal_array_size' = Len(array')
            /\ Len(array') # Len(array)
                 => /\ op'.name \in {"put", "setdefault"}
                    /\ Len(array') = 2 * Len(array)
                    /\ SizeAtGrowthCheck(op'.key) * load_factor[2]
                           >= Len(array) * load_factor[1]
            /\ op'.name \in {"pop", "popitem", "clear"}
                 => Len(array') = Len(array)]_vars

\* a put has left a table that has doubled twice since construction and
\* holds two entries
C14_Witness ==
    /\ op.name = "put"
    /\ Len(array) >= 4 * initial_capacity
    /\ TotalEntries >= 2

C16_KeysAreUnique ==
    \A k \in Keys : Count(keys(Self), k) <= 1

\* a put has overwritten a key of a table that has grown and holds another
\* key
C16_Witness ==
    /\ op.name = "put"
    /\ op.ret # None
    /\ Count(keys(Self), op.key) = 1
    /\ Len(array) > initial_capacity
    /\ TotalEntries >= 2

\* C17: a popitem call that returns a value removes exactly one entry, the
\* one whose value it returns; every other entry, whatever its value, is
\* still there with the same value.
C17_PopItemRemovesOneEntry ==
    [][(ValidLoadFactor /\ op'.name = "popitem" /\ ~op'.raised)
         => \E e \in EntrySet : /\ e[2] = op'.ret
                                /\ EntrySet' = EntrySet \ {e}
                                /\ TotalEntries' = TotalEntries - 1]_vars

\* C18: in every reachable state every key with an entry in some bucket
\* occurs at least once in the insertion stack.
C18_LiveKeysAreOnStack ==
    \A k \in LiveKeys : \E i \in 1..Len(stack) : stack[i] = k

\* after a pop the stack holds more keys than the table has entries (stale
\* or duplicate keys), and an entry is still live
C18_Witness ==
    /\ op.name = "pop"
    /\ op.ret # None
    /\ TotalEntries >= 1
    /\ Len(stack) > TotalEntries
    /\ \E i \in 1..Len(stack) : ~Present(stack[i])

\* C19: in every reachable state every entry stored in bucket i satisfies
\* hash(key) mod capacity = i for the current capacity, and the bucket array
\* is as long as the capacity used for index computation.
C19_EntriesAreInTheirBucket ==
    /\ EntriesIndexedBy(hash_function)
    /\ Len(array) = internal_array_size

\* the table has doubled twice and holds two entries, one of them in a
\* bucket that exists only since the second doubling
C19_Witness ==
    /\ Len(array) >= 4 * initial_capacity
    /\ TotalEntries >= 2
    /\ \E i \in 1..Len(array) : i > 2 * initial_capacity /\ array[i] # <<>>

\* C20: from every reachable state a popitem call ends, by a return or by
\* the raise, within as many passes of its loop as there are keys on the
\* stack plus one, and every pass that takes a key shortens the stack by one.
C20_PopItemIterations ==
    LET r == popitem(Self)
    IN  /\ r.iters <= Len(stack) + 1
        /\ IF r.raised
           THEN r.t.stack = <<>> /\ r.iters = Len(stack) + 1
           ELSE Len(r.t.stack) = Len(stack) - r.iters

\* a popitem call here skips a stale key before it returns a value
C20_Witness ==
    /\ Len(stack) >= 3
    /\ ~Present(stack[Len(stack)])
    /\ popitem(Self).iters >= 2
    /\ ~popitem(Self).raised

====
